---------------------------- MODULE Spec2Model ----------------------------
(***************************************************************************)
(* The command surface of the NApp package manager                         *)
(* (kytos/cli/commands/napps/api.py, class NAppsAPI) driving the           *)
(* NAppsManager collaborator.                                              *)
(*                                                                         *)
(* The batch verbs install / uninstall / enable / disable are modelled one *)
(* manager call per step, so that the order of the manager calls inside    *)
(* one verb is visible.  NAppsManager itself (kytos/utils/napps.py) is not *)
(* part of the sources at hand: its methods are modelled from the          *)
(* specification's sections 4.2-4.4 and 7.                                 *)
(***************************************************************************)
EXTENDS Integers, Sequences, FiniteSets, TLC

VARIABLES
    installed,  \* identities whose code is under the install path
    enabled,    \* identities with a marker under the enabled path
    local,      \* environment: the local source of each identity
    registry,   \* environment: the registry's answer for each identity
    perm,       \* environment: identities whose enabled path is not writable
    pc,         \* position of the running command
    verb,       \* the batch verb being run
    args,       \* args['<napp>'] of the running (or last) command
    i,          \* number of identities of args that set_napp has targeted
    cur,        \* the identity the manager is targeted at (mgr.set_napp)
    pre,        \* lifecycle state of cur when it was targeted
    calls,      \* mutating manager calls made for cur, with their outcome
    report,     \* what was logged for cur: "ok", "error", "raised"
    prev,       \* the identity step finished before the live one
    out,        \* what list or search hands to print_napps
    query       \* a search pattern, a listing name, and whether they match

vars == <<installed, enabled, local, registry, perm, pc, verb, args, i, cur,
          pre, calls, report, prev, out, query>>

sys == <<installed, enabled>>
env == <<local, registry, perm>>

(* ------------------------------ bounds -------------------------------- *)

MaxBatch == 2

Ids == {<<"a", "x">>, <<"b", "y">>}

Verbs == {"install", "uninstall", "enable", "disable"}

Batches == UNION {[1..n -> Ids] : n \in 1..MaxBatch}

(* ------------------------- the lifecycle state ------------------------ *)

Lifecycle(inst, en, id) ==
    IF id \in inst
    THEN IF id \in en THEN "ENABLED" ELSE "INSTALLED"
    ELSE IF id \in en THEN "ENABLED_NOT_INSTALLED" ELSE "ABSENT"

St(id) == Lifecycle(installed, enabled, id)

(* ----------------- NAppsManager (kytos.utils.napps) ------------------- *)
(* Each mutating method is an operator from the identity the manager is    *)
(* targeted at to the exception it raises ("none" when it returns) and the *)
(* installed and enabled sets it leaves.  A method that raises leaves the  *)
(* sets as they were.                                                      *)

Outcome(e, inst, en) == [exc |-> e, inst |-> inst, en |-> en]

is_installed(id) == id \in installed

is_enabled(id) == id \in enabled

\* markEnabled: needs the install path; the enabled path may be read-only.
mgr_enable(id) ==
    IF id \notin installed THEN Outcome("FileNotFoundError", installed, enabled)
    ELSE IF id \in perm THEN Outcome("PermissionError", installed, enabled)
    ELSE Outcome("none", installed, enabled \cup {id})

\* markDisabled: always succeeds.
mgr_disable(id) == Outcome("none", installed, enabled \ {id})

\* markUninstalled: removes the code under the install path only.
mgr_uninstall(id) == Outcome("none", installed \ {id}, enabled)

\* A failed remote install that nevertheless leaves the code marked installed.
install_remote_partial(id) ==
    Outcome(IF registry[id] = "ok" THEN "none" ELSE registry[id],
            installed \cup {id}, enabled)

\* markInstalled from a local source: NotFound when there is none.
install_local(id) ==
    CASE local[id] = "none" -> Outcome("FileNotFoundError", installed, enabled)
      [] local[id] = "denied" -> Outcome("PermissionError", installed, enabled)
      [] OTHER -> Outcome("none", installed \cup {id}, enabled)

\* fetch + markInstalled: HTTP 404, another HTTP status, or no transport.
install_remote(id) ==
    CASE registry[id] = "ok" -> Outcome("none", installed \cup {id}, enabled)
      [] OTHER -> Outcome(registry[id], installed, enabled)

(* Exceptions: urllib's URLError (transport failure) is the parent of      *)
(* HTTPError, so "except HTTPError" does not catch it.                     *)
HTTPErrors == {"HTTPError404", "HTTPError500"}

LocalKinds == {"none", "ok", "denied"}

RegistryKinds == {"ok", "HTTPError404", "HTTPError500", "URLError"}

(* --------------------------- bookkeeping ------------------------------ *)

NoNapp == <<>>

Call(op, o) == [op |-> op, exc |-> o.exc]

\* The manager call left the sets unchanged (or there was no manager call).
Same == Outcome("none", installed, enabled)

\* Nothing is waiting to be printed.
NoOut == [json |-> <<>>, asked |-> FALSE, napps |-> <<>>]

\* No pattern is being matched.
NoQuery == [pattern |-> <<>>, name |-> <<>>, match |-> "none"]

\* No identity step has been taken yet.
NoStep == [verb |-> "none", id |-> NoNapp, pre |-> "ABSENT", fresh |-> FALSE]

(* The step just finished (the live locals) as the record kept in prev:    *)
(* the verb, the identity, the lifecycle state it started from, and        *)
(* whether the step before it was an install of the same identity that     *)
(* found it ABSENT and left it installed.                                  *)
StepRecord ==
    [verb |-> verb, id |-> cur, pre |-> pre,
     fresh |-> /\ prev.verb = "install"
               /\ prev.id = cur
               /\ prev.pre = "ABSENT"
               /\ pre \in {"INSTALLED", "ENABLED"}]

\* prev once the live step, if any, is left behind.
Filed == IF i >= 1 THEN StepRecord ELSE prev

(* One step of a verb for identity id, the n-th of the batch, that was in  *)
(* lifecycle state p when targeted: the manager call's outcome o is        *)
(* applied, c is the trace of calls so far, rep what was logged, and next  *)
(* the position reached ("loop": back to the for loop; "raised": an        *)
(* exception nothing catches).  Targeting a new identity files the         *)
(* previous one in prev.                                                   *)
Move(id, n, p, o, c, rep, next) ==
    /\ installed' = o.inst
    /\ enabled' = o.en
    /\ cur' = id
    /\ i' = n
    /\ pre' = p
    /\ calls' = c
    /\ report' = rep
    /\ pc' = next
    /\ prev' = IF n = i THEN prev ELSE Filed
    /\ UNCHANGED <<env, verb, args, out, query>>

\* The call returned or its exception was handled: the for loop goes on.
Finish(o, c, rep) == Move(cur, i, pre, o, c, rep, "loop")

\* The exception is caught nowhere: it leaves the for loop and the verb.
Raise(o, c) == Move(cur, i, pre, o, c, "raised", "raised")

\* Control moves on to the next manager call for the same identity.
Goto(o, c, next) == Move(cur, i, pre, o, c, report, next)

\* mgr.set_napp(*napp) for the next identity of the batch, then on to next.
set_napp(next) ==
    LET id == args[i + 1] IN Move(id, i + 1, St(id), Same, <<>>, "none", next)

\* The verb is over: its locals (args, mgr) are gone.
Leave ==
    /\ pc' = "idle"
    /\ verb' = "none"
    /\ args' = <<>>
    /\ i' = 0
    /\ cur' = NoNapp
    /\ pre' = "ABSENT"
    /\ calls' = <<>>
    /\ report' = "none"
    /\ prev' = Filed
    /\ out' = NoOut
    /\ UNCHANGED <<sys, env, query>>

(* ------------------------------ NAppsAPI ------------------------------ *)

\* The command line: one batch verb over one or more identities.
Invoke ==
    /\ pc = "idle"
    /\ \E v \in Verbs, a \in Batches :
          /\ verb' = v
          /\ args' = a
    /\ pc' = "loop"
    /\ UNCHANGED <<sys, env, i, cur, pre, calls, report, prev, out, query>>

\* The for loop of a batch verb has run out of identities.
Return ==
    /\ pc = "loop"
    /\ i = Len(args)
    /\ Leave

\* An exception nothing catches ends the command with a traceback.
Traceback ==
    /\ pc = "raised"
    /\ Leave

disable ==
    /\ pc = "loop"
    /\ verb = "disable"
    /\ i < Len(args)
    /\ set_napp("disable_napp")

\* disable_napp calling mgr.uninstall() where it should call mgr.disable().
disable_napp_uninstalls ==
    /\ pc = "disable_napp"
    /\ \/ /\ is_enabled(cur)
          /\ LET o == mgr_uninstall(cur) IN
               Finish(o, Append(calls, Call("uninstall", o)), "ok")
       \/ /\ ~is_enabled(cur)
          /\ Finish(Same, calls, "ok")

\* disable_napp letting a plugin that is not enabled raise.
disable_napp_strict ==
    /\ pc = "disable_napp"
    /\ \/ /\ is_enabled(cur)
          /\ LET o == mgr_disable(cur) IN
               Finish(o, Append(calls, Call("disable", o)), "ok")
       \/ /\ ~is_enabled(cur)
          /\ Raise(Same, calls)

\* disable_napp with a manager still targeted at the first identity.
disable_napp_stale ==
    /\ pc = "disable_napp"
    /\ \/ /\ is_enabled(args[1])
          /\ LET o == mgr_disable(args[1]) IN
               Finish(o, Append(calls, Call("disable", o)), "ok")
       \/ /\ ~is_enabled(args[1])
          /\ Finish(Same, calls, "ok")

disable_napp ==
    /\ pc = "disable_napp"
    /\ \/ /\ is_enabled(cur)
          /\ LET o == mgr_disable(cur) IN
               Finish(o, Append(calls, Call("disable", o)), "ok")
       \/ /\ ~is_enabled(cur)
          /\ Finish(Same, calls, "ok")

enable ==
    /\ pc = "loop"
    /\ verb = "enable"
    /\ i < Len(args)
    /\ set_napp("enable_napp")

\* enable_napp without the is_enabled() test: mgr.enable() is always called.
enable_napp_unguarded ==
    /\ pc = "enable_napp"
    /\ LET o == mgr_enable(cur)
           c == Append(calls, Call("enable", o))
       IN  \/ /\ o.exc = "none"
              /\ Finish(o, c, "ok")
           \/ /\ o.exc \in {"FileNotFoundError", "PermissionError"}
              /\ Finish(o, c, "error")

\* enable_napp logging 'Enabled.' whether or not mgr.enable() raised.
enable_napp_reports_enabled ==
    /\ pc = "enable_napp"
    /\ \/ /\ ~is_enabled(cur)
          /\ LET o == mgr_enable(cur) IN
               Finish(o, Append(calls, Call("enable", o)), "ok")
       \/ /\ is_enabled(cur)
          /\ Finish(Same, calls, "ok")

enable_napp ==
    /\ pc = "enable_napp"
    /\ \/ /\ ~is_enabled(cur)
          /\ LET o == mgr_enable(cur)
                 c == Append(calls, Call("enable", o))
             IN  \/ /\ o.exc = "none"
                    /\ Finish(o, c, "ok")
                 \/ /\ o.exc \in {"FileNotFoundError", "PermissionError"}
                    /\ Finish(o, c, "error")
       \/ /\ is_enabled(cur)
          /\ Finish(Same, calls, "ok")

\* uninstall without the disable_napp(mgr) call after mgr.uninstall().
uninstall_nodisable ==
    /\ pc = "loop"
    /\ verb = "uninstall"
    /\ i < Len(args)
    /\ LET id == args[i + 1] IN
         \/ /\ is_installed(id)
            /\ LET o == mgr_uninstall(id) IN
                 Move(id, i + 1, St(id), o, <<Call("uninstall", o)>>, "ok",
                      "loop")
         \/ /\ ~is_installed(id)
            /\ Move(id, i + 1, St(id), Same, <<>>, "ok", "loop")

\* uninstall without the mgr.uninstall() call: the plugin is only disabled.
uninstall_keeps_code ==
    /\ pc = "loop"
    /\ verb = "uninstall"
    /\ i < Len(args)
    /\ LET id == args[i + 1] IN
         \/ /\ is_installed(id)
            /\ set_napp("disable_napp")
         \/ /\ ~is_installed(id)
            /\ Move(id, i + 1, St(id), Same, <<>>, "ok", "loop")

uninstall ==
    /\ pc = "loop"
    /\ verb = "uninstall"
    /\ i < Len(args)
    /\ LET id == args[i + 1] IN
         \/ /\ is_installed(id)
            /\ LET o == mgr_uninstall(id) IN
                 Move(id, i + 1, St(id), o, <<Call("uninstall", o)>>, "none",
                      "disable_napp")
         \/ /\ ~is_installed(id)
            /\ Move(id, i + 1, St(id), Same, <<>>, "ok", "loop")

\* install without the is_installed() test.
install_always ==
    /\ pc = "loop"
    /\ verb = "install"
    /\ i < Len(args)
    /\ set_napp("install_napp")

install ==
    /\ pc = "loop"
    /\ verb = "install"
    /\ i < Len(args)
    /\ LET id == args[i + 1] IN
         \/ /\ ~is_installed(id)
            /\ set_napp("install_napp")
         \/ /\ is_installed(id)
            /\ Move(id, i + 1, St(id), Same, <<>>, "ok", "loop")

\* install_napp asking the server first.
install_napp_remote_first ==
    /\ pc = "install_napp"
    /\ Goto(Same, calls, "install_remote")

\* install_napp with "except Exception" in place of "except FileNotFoundError".
install_napp_catchall ==
    /\ pc = "install_napp"
    /\ LET o == install_local(cur)
           c == Append(calls, Call("install_local", o))
       IN  \/ /\ o.exc = "none"
              /\ Goto(o, c, "enable_napp")
           \/ /\ o.exc # "none"
              /\ Goto(o, c, "install_remote")

\* install_napp without the enable_napp(mgr) call after mgr.install_local().
install_napp_noenable ==
    /\ pc = "install_napp"
    /\ LET o == install_local(cur)
           c == Append(calls, Call("install_local", o))
       IN  \/ /\ o.exc = "none"
              /\ Finish(o, c, "ok")
           \/ /\ o.exc = "FileNotFoundError"
              /\ Goto(o, c, "install_remote")
           \/ /\ o.exc \notin {"none", "FileNotFoundError"}
              /\ Raise(o, c)

\* try: mgr.install_local() ... except FileNotFoundError: (go to the server)
install_napp ==
    /\ pc = "install_napp"
    /\ LET o == install_local(cur)
           c == Append(calls, Call("install_local", o))
       IN  \/ /\ o.exc = "none"
              /\ Goto(o, c, "enable_napp")
           \/ /\ o.exc = "FileNotFoundError"
              /\ Goto(o, c, "install_remote")
           \/ /\ o.exc \notin {"none", "FileNotFoundError"}
              /\ Raise(o, c)

\* install_napp asking the server once more after an HTTP error.
install_napp_remote_retry ==
    /\ pc = "install_remote"
    /\ LET o == install_remote(cur)
           c == Append(calls, Call("install_remote", o))
       IN  \/ /\ o.exc = "none"
              /\ Goto(o, c, "enable_napp")
           \/ /\ o.exc \in HTTPErrors
              /\ Len(c) < 3
              /\ Goto(o, c, "install_remote")
           \/ /\ o.exc \in HTTPErrors
              /\ Len(c) >= 3
              /\ Finish(o, c, "error")
           \/ /\ o.exc \notin HTTPErrors \cup {"none"}
              /\ Raise(o, c)

\* try: mgr.install_remote() ... except HTTPError: (log the error)
install_napp_remote ==
    /\ pc = "install_remote"
    /\ LET o == install_remote(cur)
           c == Append(calls, Call("install_remote", o))
       IN  \/ /\ o.exc = "none"
              /\ Goto(o, c, "enable_napp")
           \/ /\ o.exc \in HTTPErrors
              /\ Finish(o, c, "error")
           \/ /\ o.exc \notin HTTPErrors \cup {"none"}
              /\ Raise(o, c)

(* --------------------------- search and list -------------------------- *)

MaxHits == 2

\* Python's order of the strings that occur in rows (by code point).
Rank ==
    "[i-]" :> 1 @@ "[ie]" :> 2 @@ "a" :> 3 @@ "b" :> 4 @@ "doc" :> 5
    @@ "x" :> 6 @@ "y" :> 7

\* Python's order of two tuples of strings of the same length.
RECURSIVE TupleLess(_, _)
TupleLess(s, t) ==
    IF s = <<>> \/ t = <<>> THEN s = <<>> /\ t # <<>>
    ELSE IF Head(s) = Head(t) THEN TupleLess(Tail(s), Tail(t))
    ELSE Rank[Head(s)] < Rank[Head(t)]

\* e put into the sorted sequence q, after the elements that are not greater.
RECURSIVE Insert(_, _)
Insert(e, q) ==
    IF q = <<>> THEN <<e>>
    ELSE IF TupleLess(e.key, Head(q).key) THEN <<e>> \o q
    ELSE <<Head(q)>> \o Insert(e, Tail(q))

\* sorted(...) / list.sort(): a stable sort of elements [key, val] by key.
RECURSIVE Sorted(_)
Sorted(q) ==
    IF q = <<>> THEN <<>>
    ELSE Insert(q[Len(q)], Sorted(SubSeq(q, 1, Len(q) - 1)))

\* The identities of a set as the manager lists them, in order.
RECURSIVE Listed(_)
Listed(S) ==
    IF S = {} THEN <<>>
    ELSE LET m == CHOOSE a \in S : \A b \in S \ {a} : TupleLess(a, b)
         IN  <<m>> \o Listed(S \ {m})

get_enabled == Listed(enabled)

get_installed == Listed(installed)

\* The plugins installed and not enabled.
get_disabled == Listed(installed \ enabled)

\* The description in the installed plugin's metadata.
get_description(u, n) == "doc"

Member(e, q) == \E k \in 1..Len(q) : q[k] = e

\* '{}/{}'.format(author, name)
Format(napp) == napp[1] \o "/" \o napp[2]

\* What the registry may list: the local identities and one it alone knows.
RemoteIds == Ids \cup {<<"a", "y">>}

Listings ==
    {[author |-> id[1], name |-> id[2], description |-> "doc"] : id \in RemoteIds}

\* The answers NAppsManager.search(pattern) may give, in the server's order.
RemoteJsons == UNION {[1..n -> Listings] : n \in 0..MaxHits}

\* search_rows testing the enabled set for the installed flag too.
search_rows_enabled_twice(remote_json) ==
    LET remote == [k \in 1..Len(remote_json) |->
                     [key |-> <<remote_json[k].author, remote_json[k].name,
                                remote_json[k].description>>,
                      val |-> <<<<remote_json[k].author, remote_json[k].name>>,
                                remote_json[k].description>>]]
        srt == Sorted(remote)
        row(e) ==
            LET napp == e.val[1]
                desc == e.val[2]
                status == (IF Member(napp, get_enabled) THEN "i" ELSE "-")
                          \o (IF Member(napp, get_enabled) THEN "e" ELSE "-")
            IN  <<"[" \o status \o "]", Format(napp), desc>>
    IN  [k \in 1..Len(srt) |-> row(srt[k])]

\* The rows search builds from the registry's answer.
search_rows(remote_json) ==
    LET remote == [k \in 1..Len(remote_json) |->
                     [key |-> <<remote_json[k].author, remote_json[k].name,
                                remote_json[k].description>>,
                      val |-> <<<<remote_json[k].author, remote_json[k].name>>,
                                remote_json[k].description>>]]
        srt == Sorted(remote)
        row(e) ==
            LET napp == e.val[1]
                desc == e.val[2]
                status == (IF Member(napp, get_installed) THEN "i" ELSE "-")
                          \o (IF Member(napp, get_enabled) THEN "e" ELSE "-")
            IN  <<"[" \o status \o "]", Format(napp), desc>>
    IN  [k \in 1..Len(srt) |-> row(srt[k])]

\* The rows list builds from the local store alone.
list_rows ==
    LET en == get_enabled
        dis == get_disabled
        napps == [k \in 1..Len(en) |-> en[k] \o <<"[ie]">>]
                 \o [k \in 1..Len(dis) |-> dis[k] \o <<"[i-]">>]
        srt == Sorted([k \in 1..Len(napps) |->
                         [key |-> napps[k], val |-> napps[k]]])
    IN  [k \in 1..Len(srt) |->
           <<srt[k].val[3], Format(<<srt[k].val[1], srt[k].val[2]>>),
             get_description(srt[k].val[1], srt[k].val[2])>>]

\* The search verb: the registry answers, or cannot be reached.
search ==
    /\ pc = "idle"
    /\ verb' = "search"
    /\ \/ \E remote_json \in RemoteJsons :
             /\ out' = [json |-> remote_json, asked |-> TRUE,
                        napps |-> search_rows(remote_json)]
             /\ pc' = "print_napps"
       \/ /\ out' = [json |-> <<>>, asked |-> TRUE, napps |-> <<>>]
          /\ pc' = "raised"
    /\ UNCHANGED <<sys, env, args, i, cur, pre, calls, report, prev, query>>

\* list without napps.sort(): the enabled rows, then the disabled ones.
list_unsorted ==
    /\ pc = "idle"
    /\ verb' = "list"
    /\ out' = [json |-> <<>>, asked |-> FALSE,
               napps |-> LET en == get_enabled
                             dis == get_disabled
                         IN  [k \in 1..Len(en) |->
                                <<"[ie]", Format(en[k]), "doc">>]
                             \o [k \in 1..Len(dis) |->
                                   <<"[i-]", Format(dis[k]), "doc">>]]
    /\ pc' = "print_napps"
    /\ UNCHANGED <<sys, env, args, i, cur, pre, calls, report, prev, query>>

\* The list verb.
list ==
    /\ pc = "idle"
    /\ verb' = "list"
    /\ out' = [json |-> <<>>, asked |-> FALSE, napps |-> list_rows]
    /\ pc' = "print_napps"
    /\ UNCHANGED <<sys, env, args, i, cur, pre, calls, report, prev, query>>

\* The table is printed and the command is over.
print_napps ==
    /\ pc = "print_napps"
    /\ Leave

(* --------------------------- specification ---------------------------- *)

Init ==
    /\ installed = {}
    /\ enabled = {}
    /\ local \in [Ids -> LocalKinds]
    /\ registry \in [Ids -> RegistryKinds]
    /\ perm \in SUBSET Ids
    /\ pc = "idle"
    /\ verb = "none"
    /\ args = <<>>
    /\ i = 0
    /\ cur = NoNapp
    /\ pre = "ABSENT"
    /\ calls = <<>>
    /\ report = "none"
    /\ prev = NoStep
    /\ out = NoOut
    /\ query = NoQuery

Next ==
    \/ Invoke
    \/ Return
    \/ Traceback
    \/ disable
    \/ disable_napp
    \/ enable
    \/ enable_napp
    \/ uninstall
    \/ install
    \/ install_napp
    \/ install_napp_remote
    \/ search
    \/ list
    \/ print_napps

Spec == Init /\ [][Next]_vars

(* -------------------------- the search pattern ------------------------ *)
(* Strings are sequences of characters here, so that re.escape,            *)
(* str.replace and the compiled pattern work on them as Python does.       *)

MaxPattern == 3
MaxName == 3

PatternChars == {"F", "o", "*", ".", "\\"}

NameChars == {"f", "o", ".", "\\"}

Patterns == UNION {[1..n -> PatternChars] : n \in 0..MaxPattern}

Names == UNION {[1..n -> NameChars] : n \in 0..MaxName}

\* The characters re.escape puts a backslash before.
Special == {"*", ".", "\\"}

RECURSIVE re_escape(_)
re_escape(p) ==
    IF p = <<>> THEN <<>>
    ELSE (IF Head(p) \in Special THEN <<"\\", Head(p)>> ELSE <<Head(p)>>)
         \o re_escape(Tail(p))

\* str.replace: the occurrences of old, left to right, not overlapping.
RECURSIVE Replace(_, _, _)
Replace(s, old, new) ==
    IF Len(s) < Len(old) THEN s
    ELSE IF SubSeq(s, 1, Len(old)) = old
         THEN new \o Replace(SubSeq(s, Len(old) + 1, Len(s)), old, new)
         ELSE <<Head(s)>> \o Replace(Tail(s), old, new)

\* The shell pattern with re.escape left out.
safe_shell_pat_unescaped(p) == Replace(p, <<"\\", "*">>, <<".", "*">>)

\* re.escape(args['<pattern>']).replace(r'\*', '.*')
safe_shell_pat(p) == Replace(re_escape(p), <<"\\", "*">>, <<".", "*">>)

\* '.*{}.*'.format(safe_shell_pat)
pat_str(p) == <<".", "*">> \o safe_shell_pat(p) \o <<".", "*">>

(* re.compile: the pattern text as a sequence of items, each an escaped or *)
(* plain character or the dot, possibly repeated by a following star.      *)
RECURSIVE Parse(_)
Parse(cs) ==
    IF cs = <<>> THEN <<>>
    ELSE LET esc == Head(cs) = "\\" /\ Len(cs) >= 2
             atom == IF esc THEN [kind |-> "lit", ch |-> cs[2]]
                     ELSE IF Head(cs) = "." THEN [kind |-> "any", ch |-> "."]
                     ELSE [kind |-> "lit", ch |-> Head(cs)]
             rest == IF esc THEN SubSeq(cs, 3, Len(cs)) ELSE Tail(cs)
             star == rest # <<>> /\ Head(rest) = "*"
         IN  <<[kind |-> atom.kind, ch |-> atom.ch, star |-> star]>>
             \o Parse(IF star THEN Tail(rest) ELSE rest)

re_compile(cs, ignorecase) == [items |-> Parse(cs), ignorecase |-> ignorecase]

\* Case folding of the characters in use.
Fold(c) == IF c = "F" THEN "f" ELSE IF c = "O" THEN "o" ELSE c

Accepts(item, c, ignorecase) ==
    \/ item.kind = "any"
    \/ item.ch = c
    \/ ignorecase /\ Fold(item.ch) = Fold(c)

\* The items match a prefix of the text.
RECURSIVE MatchItems(_, _, _)
MatchItems(items, t, ic) ==
    IF items = <<>> THEN TRUE
    ELSE IF Head(items).star
         THEN \E k \in 0..Len(t) :
                 /\ \A j \in 1..k : Accepts(Head(items), t[j], ic)
                 /\ MatchItems(Tail(items), SubSeq(t, k + 1, Len(t)), ic)
         ELSE /\ t # <<>>
              /\ Accepts(Head(items), Head(t), ic)
              /\ MatchItems(Tail(items), Tail(t), ic)

\* pattern.match(string), as NAppsManager.search applies it to a listing.
re_match(re, t) == MatchItems(re.items, t, re.ignorecase)

\* Lines 117-119 of search, and the registry side matching one listing name.
search_pattern ==
    /\ query.match = "none"
    /\ LET pattern == re_compile(pat_str(query.pattern), TRUE) IN
         query' = [query EXCEPT
                     !.match = IF re_match(pattern, query.name)
                               THEN "yes" ELSE "no"]
    /\ UNCHANGED <<sys, env, pc, verb, args, i, cur, pre, calls, report, prev,
                   out>>

InitPattern ==
    /\ installed = {}
    /\ enabled = {}
    /\ local = [id \in Ids |-> "none"]
    /\ registry = [id \in Ids |-> "ok"]
    /\ perm = {}
    /\ pc = "idle"
    /\ verb = "none"
    /\ args = <<>>
    /\ i = 0
    /\ cur = NoNapp
    /\ pre = "ABSENT"
    /\ calls = <<>>
    /\ report = "none"
    /\ prev = NoStep
    /\ out = NoOut
    /\ \/ \E p \in Patterns, n \in Names :
             query = [pattern |-> p, name |-> n, match |-> "none"]
       \/ query = [pattern |-> <<"F", "o", "o", "*">>,
                   name |-> <<"f", "o", "o", "b", "a", "r">>,
                   match |-> "none"]

NextPattern == search_pattern

SpecPattern == InitPattern /\ [][NextPattern]_vars

(* ------------------------------ properties ---------------------------- *)

\* The work on identity cur is over: back in the for loop, or thrown out of it.
StepDone == (pc = "loop" /\ i >= 1) \/ pc = "raised"

\* The verb is about to be left, by return or by exception.
VerbDone == (pc = "loop" /\ i = Len(args)) \/ pc = "raised"

Called(op) == \E k \in 1..Len(calls) : calls[k].op = op

Returned(op) == \E k \in 1..Len(calls) : calls[k] = [op |-> op, exc |-> "none"]

LocalNotFound == [op |-> "install_local", exc |-> "FileNotFoundError"]

\* The live step repeats the previous one: same verb, same identity.
Repeated == StepDone /\ prev.verb = verb /\ prev.id = cur

(* C1: between commands, whatever commands have run over whatever lists    *)
(* and with whatever manager failures, every enabled identity is           *)
(* installed.                                                              *)
C1_EnabledImpliesInstalled == pc = "idle" => enabled \subseteq installed

C1_Witness ==
    /\ pc = "idle"
    /\ prev.verb = "uninstall"
    /\ prev.pre = "ENABLED"
    /\ St(prev.id) = "ABSENT"
    /\ \E id \in Ids : St(id) = "ENABLED"

(* C2: while uninstall works on a plugin that was enabled, the plugin is   *)
(* never enabled with its installed code already removed (the disable      *)
(* comes before the removal).                                              *)
C2_DisableBeforeRemove ==
    (verb = "uninstall" /\ i >= 1 /\ pre = "ENABLED")
        => St(cur) # "ENABLED_NOT_INSTALLED"

(* C3: install of an ABSENT identity that has both a local source and a    *)
(* remote listing never calls install_remote, and, unless the local        *)
(* installation itself raises an error other than NotFound, ends with the  *)
(* identity installed by install_local.                                    *)
C3_LocalPrecedence ==
    (verb = "install" /\ i >= 1 /\ pre = "ABSENT"
     /\ local[cur] # "none" /\ registry[cur] = "ok")
        => /\ ~Called("install_remote")
           /\ pc # "install_remote"
           /\ (StepDone /\ local[cur] = "ok")
                 => (cur \in installed /\ Returned("install_local"))

C3_Witness ==
    /\ StepDone
    /\ verb = "install"
    /\ pre = "ABSENT"
    /\ local[cur] = "ok"
    /\ registry[cur] = "ok"
    /\ Returned("install_local")
    /\ cur \in installed

(* C4: install_remote is called only as the second manager call of an      *)
(* install step, right after install_local raised FileNotFoundError: not   *)
(* after another error of install_local, and not after a failed enable.    *)
C4_RemoteOnlyAfterLocalNotFound ==
    /\ pc = "install_remote" => calls = <<LocalNotFound>>
    /\ \A k \in 1..Len(calls) :
          calls[k].op = "install_remote" => (k = 2 /\ calls[1] = LocalNotFound)
    /\ (StepDone /\ Len(calls) >= 1 /\ calls[1].op = "install_local"
        /\ calls[1].exc # "FileNotFoundError") => ~Called("install_remote")

C4_Witness ==
    /\ StepDone
    /\ Len(calls) = 2
    /\ calls[1] = LocalNotFound
    /\ calls[2].op = "install_remote"

\* The cases in which C4 forbids the remote install do occur.
C4_WitnessLocalOtherError ==
    /\ StepDone
    /\ calls = <<[op |-> "install_local", exc |-> "PermissionError"]>>

C4_WitnessEnableFailed ==
    /\ StepDone
    /\ calls = <<[op |-> "install_local", exc |-> "none"],
                 [op |-> "enable", exc |-> "PermissionError"]>>

(* C5 as claimed: an install step that reports no failure leaves the       *)
(* plugin enabled.                                                         *)
C5_InstallImpliesEnabled ==
    (StepDone /\ verb = "install" /\ report = "ok") => St(cur) = "ENABLED"

(* C5 amended: a successful install_local or install_remote is followed    *)
(* at once by the enable step; an enable that does not fail leaves         *)
(* the identity ENABLED; and an install step on an identity that was not   *)
(* installed and that reports no failure leaves it ENABLED.                *)
C5_FreshInstallImpliesEnabled ==
    (verb = "install" /\ i >= 1)
        => /\ \A k \in 1..Len(calls) :
                (calls[k].op \in {"install_local", "install_remote"}
                 /\ calls[k].exc = "none")
                    => \/ k = Len(calls) /\ pc = "enable_napp"
                       \/ k < Len(calls) /\ calls[k + 1].op = "enable"
                       \/ k = Len(calls) /\ StepDone /\ St(cur) = "ENABLED"
           /\ (StepDone /\ Returned("enable")) => St(cur) = "ENABLED"
           /\ (StepDone /\ report = "ok" /\ pre = "ABSENT")
                 => St(cur) = "ENABLED"

C5_Witness ==
    /\ StepDone
    /\ verb = "install"
    /\ pre = "ABSENT"
    /\ report = "ok"
    /\ calls = <<LocalNotFound, [op |-> "install_remote", exc |-> "none"],
                 [op |-> "enable", exc |-> "none"]>>
    /\ St(cur) = "ENABLED"

(* C6 as claimed: a second enable (disable) of the same identity right     *)
(* after the first leaves the state as the first left it, makes no manager *)
(* call when the plugin is already in the target state, and reports        *)
(* success.                                                                *)
C6_SecondCallSucceeds ==
    (Repeated /\ verb \in {"enable", "disable"})
        => /\ St(cur) = pre
           /\ (cur \in enabled <=> verb = "enable") => calls = <<>>
           /\ report = "ok"

(* C6 amended: a second enable (disable) of the same identity right after  *)
(* the first leaves the state as the first left it; it makes no manager    *)
(* call when the plugin is already in the target state and then reports    *)
(* success; the second disable always reports success; a second enable of  *)
(* a plugin the first could not enable calls mgr.enable again, which fails *)
(* again without changing anything, and reports that error.                *)
C6_Idempotent ==
    (Repeated /\ verb \in {"enable", "disable"})
        => /\ St(cur) = pre
           /\ \A id \in Ids : St(id) \in {"ABSENT", "INSTALLED", "ENABLED"}
           /\ (pre = "ENABLED" <=> verb = "enable")
                 => (calls = <<>> /\ report = "ok")
           /\ verb = "disable" => (calls = <<>> /\ report = "ok")
           /\ (verb = "enable" /\ pre # "ENABLED")
                 => /\ Len(calls) = 1
                    /\ calls[1].op = "enable"
                    /\ calls[1].exc # "none"
                    /\ report = "error"

C6_Witness ==
    /\ Repeated
    /\ verb = "enable"
    /\ pre = "ENABLED"
    /\ St(cur) = "ENABLED"
    /\ report = "ok"

\* The case that separates C6 as claimed from C6 amended.
C6_WitnessSecondFails ==
    /\ Repeated
    /\ verb = "enable"
    /\ pre = "INSTALLED"
    /\ report = "error"

(* C7: install of an ABSENT identity that leaves it installed, then        *)
(* enable, then disable of the same identity, leaves it INSTALLED.         *)
C7_InstallEnableDisable ==
    (StepDone /\ verb = "disable" /\ prev.verb = "enable" /\ prev.id = cur
     /\ prev.fresh)
        => St(cur) = "INSTALLED"

C7_Witness ==
    /\ StepDone
    /\ verb = "disable"
    /\ prev.verb = "enable"
    /\ prev.id = cur
    /\ prev.fresh
    /\ pre = "ENABLED"
    /\ Returned("disable")
    /\ St(cur) = "INSTALLED"

(* C8: a batch verb is never left before every identity of its list has    *)
(* been processed: no manager failure ends it early.                       *)
C8_BatchContinues == VerbDone => i = Len(args)

(* C9: disable over two different identities, the first not installed and  *)
(* the second enabled, processes both and leaves the first ABSENT and the  *)
(* second INSTALLED.                                                       *)
C9_DisableBatch ==
    (VerbDone /\ verb = "disable" /\ Len(args) = 2 /\ args[1] # args[2]
     /\ (IF i = 1 THEN pre ELSE prev.pre) = "ABSENT"
     /\ (IF i = 1 THEN St(args[2]) ELSE pre) = "ENABLED")
        => /\ i = 2
           /\ St(args[1]) = "ABSENT"
           /\ St(args[2]) = "INSTALLED"

C9_Witness ==
    /\ VerbDone
    /\ verb = "disable"
    /\ Len(args) = 2
    /\ args[1] # args[2]
    /\ i = 2
    /\ prev.verb = "disable"
    /\ prev.pre = "ABSENT"
    /\ pre = "ENABLED"
    /\ Returned("disable")
    /\ St(args[2]) = "INSTALLED"

(* C10: an install step on an ABSENT identity whose local source is        *)
(* missing and whose remote install fails leaves the identity ABSENT.      *)
C10_FailedInstallLeavesAbsent ==
    (StepDone /\ verb = "install" /\ pre = "ABSENT" /\ Len(calls) = 2
     /\ calls[1] = LocalNotFound /\ calls[2].op = "install_remote"
     /\ calls[2].exc # "none")
        => St(cur) = "ABSENT"

C10_Witness ==
    /\ StepDone
    /\ verb = "install"
    /\ pre = "ABSENT"
    /\ calls = <<LocalNotFound,
                 [op |-> "install_remote", exc |-> "HTTPError500"]>>
    /\ report = "error"
    /\ St(cur) = "ABSENT"

\* list has built its rows and hands them to print_napps.
Listing == pc = "print_napps" /\ verb = "list"

\* Row r is the row of identity id.
RowOf(r, id) == r[2] = Format(id)

(* C11: whenever list runs, every row it builds (the rows tagged [ie]      *)
(* among them) names an identity that is installed.                        *)
C11_ListRowsInstalled ==
    Listing => \A k \in 1..Len(out.napps) :
                  \E id \in installed : RowOf(out.napps[k], id)

C11_Witness ==
    /\ Listing
    /\ \E k \in 1..Len(out.napps) : out.napps[k][1] = "[ie]"
    /\ \E id \in Ids : id \notin installed

(* C12: list asks the registry nothing and builds exactly one row for each *)
(* installed plugin, tagged [ie] if the plugin is enabled and [i-] if it   *)
(* is not, the rows in increasing order of (author, name).                 *)
C12_ListExact ==
    Listing
        => /\ ~out.asked
           /\ Len(out.napps) = Cardinality(installed)
           /\ \A id \in installed :
                 \E k \in 1..Len(out.napps) :
                    out.napps[k] = <<IF id \in enabled THEN "[ie]" ELSE "[i-]",
                                     Format(id), get_description(id[1], id[2])>>
           /\ \A k \in 1..(Len(out.napps) - 1) :
                 \E a, b \in installed :
                    /\ RowOf(out.napps[k], a)
                    /\ RowOf(out.napps[k + 1], b)
                    /\ TupleLess(a, b)

C12_Witness ==
    /\ Listing
    /\ Len(out.napps) = 2
    /\ out.napps[1][1] = "[i-]"
    /\ out.napps[2][1] = "[ie]"

\* search has built its rows and hands them to print_napps.
Searching == pc = "print_napps" /\ verb = "search"

Orders(n) ==
    {f \in [1..n -> 1..n] : \A j, k \in 1..n : f[j] = f[k] => j = k}

\* The row search owes to listing n, given the local sets.
RowFor(n) ==
    LET napp == <<n.author, n.name>> IN
      <<"[" \o (IF napp \in installed THEN "i" ELSE "-")
            \o (IF napp \in enabled THEN "e" ELSE "-") \o "]",
        Format(napp), n.description>>

(* C13: search builds one row for each listing the registry returned, with *)
(* flag i exactly when the listing's (author, name) is installed and flag  *)
(* e exactly when it is enabled, the rows in non-decreasing order of       *)
(* (author, name).                                                         *)
C13_SearchRows ==
    Searching
        => /\ Len(out.napps) = Len(out.json)
           /\ \E f \in Orders(Len(out.json)) :
                 /\ \A k \in 1..Len(out.json) :
                       out.napps[k] = RowFor(out.json[f[k]])
                 /\ \A k \in 1..(Len(out.json) - 1) :
                       LET a == out.json[f[k]]
                           b == out.json[f[k + 1]]
                       IN  ~TupleLess(<<b.author, b.name>>,
                                      <<a.author, a.name>>)

C13_Witness ==
    /\ Searching
    /\ Len(out.json) = 2
    /\ out.json[1].author = "b"
    /\ out.json[2].name = "y"
    /\ out.napps[1][1] = "[--]"
    /\ out.napps[2][1] = "[i-]"

\* Shell pattern p matches a prefix of t: * is any sequence, the rest literal.
RECURSIVE GlobPrefix(_, _)
GlobPrefix(p, t) ==
    IF p = <<>> THEN TRUE
    ELSE IF Head(p) = "*"
         THEN \E k \in 0..Len(t) :
                 GlobPrefix(Tail(p), SubSeq(t, k + 1, Len(t)))
         ELSE /\ t # <<>>
              /\ Fold(Head(p)) = Fold(Head(t))
              /\ GlobPrefix(Tail(p), Tail(t))

\* Shell pattern p matches somewhere inside t.
GlobInside(p, t) ==
    \E k \in 0..Len(t) : GlobPrefix(p, SubSeq(t, k + 1, Len(t)))

(* C14: the compiled search pattern matches a name exactly when the user's *)
(* pattern, read case-insensitively with * as any sequence of characters   *)
(* and every other character literal, matches somewhere inside the name;   *)
(* Foo* matches foobar.                                                    *)
C14_PatternIsGlob ==
    /\ query.match # "none"
          => (query.match = "yes" <=> GlobInside(query.pattern, query.name))
    /\ (query.match # "none" /\ query.pattern = <<"F", "o", "o", "*">>
        /\ query.name = <<"f", "o", "o", "b", "a", "r">>)
          => query.match = "yes"

C14_Witness ==
    /\ query.pattern = <<"F", "o", "o", "*">>
    /\ query.name = <<"f", "o", "o", "b", "a", "r">>
    /\ query.match = "yes"

\* Patterns with special characters are matched, and some names are refused.
C14_WitnessLiteralDot ==
    /\ query.pattern = <<".", "*", "\\">>
    /\ query.name = <<".", "f", "\\">>
    /\ query.match = "yes"

C14_WitnessRefused ==
    /\ query.pattern = <<".">>
    /\ query.name = <<"f", "o">>
    /\ query.match = "no"

(* C15: an uninstall step leaves the identity ABSENT whether it found it   *)
(* INSTALLED or ENABLED, and makes no manager call for an identity it      *)
(* found ABSENT.                                                           *)
C15_UninstallLeavesAbsent ==
    (StepDone /\ verb = "uninstall")
        => /\ St(cur) = "ABSENT"
           /\ pre = "ABSENT" => calls = <<>>
           /\ pre # "ABSENT" => Returned("uninstall")

C15_Witness ==
    /\ StepDone
    /\ verb = "uninstall"
    /\ pre = "ENABLED"
    /\ St(cur) = "ABSENT"

\* The other two starting states of C15 occur as well.
C15_WitnessInstalled ==
    StepDone /\ verb = "uninstall" /\ pre = "INSTALLED" /\ St(cur) = "ABSENT"

C15_WitnessAbsent ==
    StepDone /\ verb = "uninstall" /\ pre = "ABSENT" /\ calls = <<>>

(* C16: an enable step on an identity that is not installed makes one      *)
(* mgr.enable call, which raises FileNotFoundError or PermissionError; the *)
(* step logs an error, not 'Enabled.', and leaves the identity ABSENT.     *)
C16_EnableAbsentFails ==
    (StepDone /\ verb = "enable" /\ pre = "ABSENT")
        => /\ St(cur) = "ABSENT"
           /\ report = "error"
           /\ Len(calls) = 1
           /\ calls[1].op = "enable"
           /\ calls[1].exc \in {"FileNotFoundError", "PermissionError"}

C16_Witness ==
    /\ StepDone
    /\ verb = "enable"
    /\ pre = "ABSENT"
    /\ calls = <<[op |-> "enable", exc |-> "FileNotFoundError"]>>
    /\ report = "error"

(* C17: while one identity is processed no manager method is called twice  *)
(* (install_local at most once, install_remote at most once, no failed     *)
(* enable, disable or uninstall called again), and every install_remote    *)
(* call comes right after a failed install_local call.                     *)
C17_NoRetry ==
    /\ \A j, k \in 1..Len(calls) : calls[j].op = calls[k].op => j = k
    /\ \A k \in 1..Len(calls) :
          calls[k].op = "install_remote"
              => /\ k > 1
                 /\ calls[k - 1].op = "install_local"
                 /\ calls[k - 1].exc # "none"

C17_Witness ==
    /\ StepDone
    /\ Len(calls) = 2
    /\ calls[1].op = "install_local"
    /\ calls[1].exc # "none"
    /\ calls[2] = [op |-> "install_remote", exc |-> "HTTPError404"]

(* C18: every step leaves the installed and enabled state of each identity *)
(* other than the one being processed as it was.                           *)
C18_Frame ==
    [][\A id \in Ids :
          id # cur' => /\ (id \in installed' <=> id \in installed)
                       /\ (id \in enabled' <=> id \in enabled)]_vars

C18_Witness ==
    /\ StepDone
    /\ i = 2
    /\ args[1] # cur
    /\ verb = "enable"
    /\ St(args[1]) = "ENABLED"
    /\ pre = "INSTALLED"
    /\ St(cur) = "ENABLED"

(* C19: an install step on an identity that is already installed makes no  *)
(* manager call at all and leaves its state as it was: an INSTALLED,       *)
(* disabled plugin stays disabled.                                         *)
C19_InstallInstalledIsNoop ==
    (verb = "install" /\ i >= 1 /\ pre \in {"INSTALLED", "ENABLED"})
        => /\ pc = "loop"
           /\ calls = <<>>
           /\ St(cur) = pre
           /\ report = "ok"

C19_Witness ==
    /\ StepDone
    /\ verb = "install"
    /\ pre = "INSTALLED"
    /\ St(cur) = "INSTALLED"
    /\ calls = <<>>

=============================================================================
